---- MODULE Spec2Model ----
(***************************************************************************)
(* Attribute-tree codec of the three netlink example protocols:            *)
(*   conntrack  (src/bin/conntrack/main.rs)                                *)
(*   beverage   (src/bin/tea_coffee.rs)                                    *)
(*   ping-pong  (src/bin/pingpong.rs)                                      *)
(* Messages are built, serialized into a pre-sized buffer, optionally      *)
(* altered on the wire, and deserialized.  Byte buffers are sequences of   *)
(* naturals 0..255; offsets are 0-based as in the source, so the byte at   *)
(* offset o of buffer b is b[o + 1].  Multi-byte integers are in native    *)
(* order, little-endian on the hosts the captured packets come from.       *)
(***************************************************************************)
EXTENDS Integers, Sequences, FiniteSets, TLC

\* ------------------------------------------------------------- bounds
\* Most attribute nodes (containers and leaves together) in a conntrack tree.
MaxNodes == 4
\* Most attributes in a beverage message.
MaxBvgAttrs == 2
\* Most characters in a generated string.
MaxStrLen == 1

\* ------------------------------------------------- protocol constants
NFGENMSG_LEN == 4
NFNL_SUBSYS_CTNETLINK == 1
IPCTNL_MSG_CT_GET == 1
NETFILTER_CONNTRACK_GET_MESSAGE_TYPE == NFNL_SUBSYS_CTNETLINK * 256 + IPCTNL_MSG_CT_GET
CTA_TUPLE_ORIG == 1
CTA_TUPLE_IP == 1
CTA_TUPLE_PROTO == 2
IPV4_LEN == 4
IPV6_LEN == 16
CTA_IP_V4_SRC == 1
CTA_IP_V6_SRC == 3
CTA_IP_V4_DST == 2
CTA_IP_V6_DST == 4
CTA_PROTO_NUM == 1
CTA_PROTO_SRC_PORT == 2
CTA_PROTO_DST_PORT == 3

TEA_MESSAGE_TYPE == 19
COFFEE_MESSAGE_TYPE == 20
BVG_GEN_MSG_LEN == 4
BVG_ATTR_CAFFEINE_CONTENT == 1
BVG_ATTR_HOTNESS == 2
BVG_ATTR_PERSON_NAME == 3

PING_MESSAGE == 18
PONG_MESSAGE == 20
PING_PONG_ATTR_MSG == 1
PING_PONG_ATTR_COOKIE == 2

\* netlink_packet_core::nla, as used through the Nla trait
NLA_F_NESTED == 32768
NLA_F_NET_BYTEORDER == 16384
NLA_TYPE_MASK == 16383
NLA_HEADER_SIZE == 4
NLA_ALIGNTO == 4
\* width of the record length field: a u16
U16_MODULUS == 65536

\* ------------------------------------------------------- byte helpers
Byte == 0..255

\* Native-endian (little-endian) encodings of u16 / u32.
LE16(n) == << n % 256, (n \div 256) % 256 >>
\* A u32 is kept as its two 16-bit halves, [hi, lo], value hi * 2^16 + lo.
U32(h, l) == [hi |-> h, lo |-> l]
LE32(n) == LE16(n.lo) \o LE16(n.hi)

\* Native-endian reads at a 0-based offset; the caller has checked the range.
U16At(b, off) == b[off + 1] + 256 * b[off + 2]
U32Of(b) == U32(U16At(b, 2), U16At(b, 0))

\* buf[from..to] of Rust: 0-based, to exclusive.
Slice(b, from, to) == SubSeq(b, from + 1, to)

\* nla_align!: round up to the next multiple of NLA_ALIGNTO.
nla_align(n) == ((n + NLA_ALIGNTO - 1) \div NLA_ALIGNTO) * NLA_ALIGNTO

\* ------------------------------------------------------------ strings
\* A String is its UTF-8 byte sequence.  str::len is the byte length.
\* String::from_utf8 accepts exactly the well-formed UTF-8 sequences.
IsCont(x) == x >= 128 /\ x <= 191
\* Length of the scalar value a lead byte announces, 0 if x cannot lead.
LeadLen(x) ==
    IF x <= 127 THEN 1
    ELSE IF x >= 194 /\ x <= 223 THEN 2
    ELSE IF x >= 224 /\ x <= 239 THEN 3
    ELSE IF x >= 240 /\ x <= 244 THEN 4
    ELSE 0
\* The second byte of a 3- or 4-byte form has a narrower range after some leads.
SecondOk(lead, x) ==
    IF lead = 224 THEN x >= 160 /\ x <= 191
    ELSE IF lead = 237 THEN x >= 128 /\ x <= 159
    ELSE IF lead = 240 THEN x >= 144 /\ x <= 191
    ELSE IF lead = 244 THEN x >= 128 /\ x <= 143
    ELSE IsCont(x)
\* The validation loop of core::str::from_utf8, from byte position i on.
RECURSIVE utf8_valid_from(_, _)
utf8_valid_from(b, i) ==
    IF i > Len(b) THEN TRUE
    ELSE LET n == LeadLen(b[i])
         IN /\ n > 0
            /\ i + n - 1 <= Len(b)
            /\ \A j \in (i + 1)..(i + n - 1) : IsCont(b[j])
            /\ (n > 1 => SecondOk(b[i], b[i + 1]))
            /\ utf8_valid_from(b, i + n)
from_utf8_ok(b) == utf8_valid_from(b, 1)

\* --------------------------------------------------- attribute values
\* Every attribute is a record with a tag naming its variant.
\*   ConntrackAttribute::CtaTupleOrig(Vec<Tuple>)
CtaTupleOrig(ts) == [tag |-> "CtaTupleOrig", nlas |-> ts]
\*   Tuple::Ip(Vec<IPTuple>), Tuple::Proto(Vec<ProtoTuple>)
TupleIp(ls) == [tag |-> "Ip", nlas |-> ls]
TupleProto(ls) == [tag |-> "Proto", nlas |-> ls]
\*   IPTuple::SourceAddress(IpAddr), IPTuple::DestinationAddress(IpAddr);
\*   an IpAddr is its family and its octets.
SourceAddress(f, o) == [tag |-> "SourceAddress", fam |-> f, octets |-> o]
DestinationAddress(f, o) == [tag |-> "DestinationAddress", fam |-> f, octets |-> o]
\*   ProtoTuple::Protocol(u8), SourcePort(u16), DestinationPort(u16)
Protocol(v) == [tag |-> "Protocol", v |-> v]
SourcePort(v) == [tag |-> "SourcePort", v |-> v]
DestinationPort(v) == [tag |-> "DestinationPort", v |-> v]
\* A String is kept as `unit.repeat(times)`: unit's UTF-8 bytes, times >= 1.
\* Every string the decoders build, and every short one, has times = 1.
String_from(bytes) == [unit |-> bytes, times |-> 1]
String_repeat(bytes, n) == [unit |-> bytes, times |-> n]
String_len(str) == Len(str.unit) * str.times
as_bytes(str) ==
    IF str.times = 1 THEN str.unit
    ELSE [i \in 1..String_len(str) |-> str.unit[((i - 1) % Len(str.unit)) + 1]]
EmptyString == String_from(<< >>)
\*   BeverageAttribute::CaffeineContent(u32), Hotness(u32), PersonName(String)
CaffeineContent(n) == [tag |-> "CaffeineContent", v |-> n, s |-> EmptyString]
Hotness(n) == [tag |-> "Hotness", v |-> n, s |-> EmptyString]
PersonName(str) == [tag |-> "PersonName", v |-> U32(0, 0), s |-> str]
\*   PingPongAttribute::Message(String), Cookie(u32)
Message(str) == [tag |-> "Message", v |-> U32(0, 0), s |-> str]
Cookie(n) == [tag |-> "Cookie", v |-> n, s |-> EmptyString]

ConntrackTags == {"CtaTupleOrig"}
TupleTags == {"Ip", "Proto"}
IPTupleTags == {"SourceAddress", "DestinationAddress"}
ProtoTupleTags == {"Protocol", "SourcePort", "DestinationPort"}
BeverageTags == {"CaffeineContent", "Hotness", "PersonName"}
PingPongTags == {"Message", "Cookie"}

\* ------------------------------------------------- Nla: value_len, kind
RECURSIVE Nla_buffer_len(_)

\* nlas.iter().map(|op| op.buffer_len()).sum()
RECURSIVE sum_buffer_len(_)
sum_buffer_len(nlas) ==
    IF nlas = << >> THEN 0 ELSE Nla_buffer_len(Head(nlas)) + sum_buffer_len(Tail(nlas))

ConntrackAttribute_value_len(a) == sum_buffer_len(a.nlas)
\* Faulty variant: only the first child counted.
Tuple_value_len_first(a) == IF a.nlas = << >> THEN 0 ELSE Nla_buffer_len(Head(a.nlas))
Tuple_value_len(a) == sum_buffer_len(a.nlas)
IPTuple_value_len(a) == IF a.fam = "V4" THEN IPV4_LEN ELSE IPV6_LEN
\* size_of_val of the u8 / u16 payload
ProtoTuple_value_len(a) == IF a.tag = "Protocol" THEN 1 ELSE 2
BeverageAttribute_value_len(a) == IF a.tag = "PersonName" THEN String_len(a.s) + 1 ELSE 4
PingPongAttribute_value_len(a) == IF a.tag = "Message" THEN String_len(a.s) + 1 ELSE 4

\* Nla::value_len, dispatched on the implementing type.
Nla_value_len(a) ==
    IF a.tag \in ConntrackTags THEN ConntrackAttribute_value_len(a)
    ELSE IF a.tag \in TupleTags THEN Tuple_value_len(a)
    ELSE IF a.tag \in IPTupleTags THEN IPTuple_value_len(a)
    ELSE IF a.tag \in ProtoTupleTags THEN ProtoTuple_value_len(a)
    ELSE IF a.tag \in BeverageTags THEN BeverageAttribute_value_len(a)
    ELSE PingPongAttribute_value_len(a)

\* <T: Nla as Emitable>::buffer_len: header, value and padding.
Nla_buffer_len(a) ==
    LET vl == Nla_value_len(a)
    IN vl + NLA_HEADER_SIZE + (nla_align(vl) - vl)

\* <&[T] as Emitable>::buffer_len
slice_buffer_len(nlas) == sum_buffer_len(nlas)

ConntrackAttribute_kind(a) == CTA_TUPLE_ORIG
\* Faulty variant: both tuple containers written with the kind of the first.
Tuple_kind_same(a) == CTA_TUPLE_IP
Tuple_kind(a) == IF a.tag = "Ip" THEN CTA_TUPLE_IP ELSE CTA_TUPLE_PROTO
IPTuple_kind(a) ==
    IF a.tag = "SourceAddress"
    THEN (IF a.fam = "V4" THEN CTA_IP_V4_SRC ELSE CTA_IP_V6_SRC)
    ELSE (IF a.fam = "V4" THEN CTA_IP_V4_DST ELSE CTA_IP_V6_DST)
ProtoTuple_kind(a) ==
    IF a.tag = "Protocol" THEN CTA_PROTO_NUM
    ELSE IF a.tag = "SourcePort" THEN CTA_PROTO_SRC_PORT
    ELSE CTA_PROTO_DST_PORT
BeverageAttribute_kind(a) ==
    IF a.tag = "CaffeineContent" THEN BVG_ATTR_CAFFEINE_CONTENT
    ELSE IF a.tag = "Hotness" THEN BVG_ATTR_HOTNESS
    ELSE BVG_ATTR_PERSON_NAME
PingPongAttribute_kind(a) ==
    IF a.tag = "Message" THEN PING_PONG_ATTR_MSG ELSE PING_PONG_ATTR_COOKIE

Nla_kind(a) ==
    IF a.tag \in ConntrackTags THEN ConntrackAttribute_kind(a)
    ELSE IF a.tag \in TupleTags THEN Tuple_kind(a)
    ELSE IF a.tag \in IPTupleTags THEN IPTuple_kind(a)
    ELSE IF a.tag \in ProtoTupleTags THEN ProtoTuple_kind(a)
    ELSE IF a.tag \in BeverageTags THEN BeverageAttribute_kind(a)
    ELSE PingPongAttribute_kind(a)

\* is_nested: overridden by ConntrackAttribute and Tuple, the trait's default
\* (false) everywhere else.
ConntrackAttribute_is_nested(a) == a.tag = "CtaTupleOrig"
\* Faulty variant: the tuple containers written without the nested flag.
Tuple_is_nested_never(a) == FALSE
Tuple_is_nested(a) == a.tag \in {"Ip", "Proto"}
Nla_is_nested(a) ==
    IF a.tag \in ConntrackTags THEN ConntrackAttribute_is_nested(a)
    ELSE IF a.tag \in TupleTags THEN Tuple_is_nested(a)
    ELSE FALSE

\* ----------------------------------------------------------- emitting
\* The state of one serialize call: the output buffer b, whether the call has
\* panicked (an out-of-range slice or index, a failed unwrap, an arithmetic
\* overflow), hw, the end of the furthest write so far, and recs, the
\* records whose emit has started, in order: the attribute, the offset in b
\* its record starts at and, once its emit has returned, the offset its
\* writes ended at (-1 before).  A panic unwinds out of serialize and the
\* caller: no one reads the buffer afterwards, and the state drops it.
EmitState(bytes) == [b |-> bytes, panic |-> FALSE, hw |-> 0, recs |-> << >>]
Panicked(st) == [st EXCEPT !.panic = TRUE, !.b = << >>]
Max2(x, y) == IF x >= y THEN x ELSE y

\* dst[pos .. pos + Len(bytes)] = bytes, the range having been checked.
WriteAt(st, pos, bytes) ==
    [st EXCEPT !.b = SubSeq(@, 1, pos) \o bytes \o SubSeq(@, pos + Len(bytes) + 1, Len(@)),
               !.hw = Max2(@, pos + Len(bytes))]

\* A write of bytes at offset pos of the slice [lo, hi): panics when it
\* does not fit.
WriteIn(st, lo, hi, pos, bytes) ==
    IF st.panic THEN st
    ELSE IF lo + pos + Len(bytes) > hi THEN Panicked(st)
    ELSE WriteAt(st, lo + pos, bytes)

RECURSIVE Nla_emit(_, _, _, _)

\* Faulty variant: the next child placed after the unpadded length of the
\* one just written.
RECURSIVE emit_children_packed(_, _, _, _, _)
emit_children_packed(st, lo, hi, nlas, len) ==
    IF st.panic \/ nlas = << >> THEN st
    ELSE IF lo + len > hi THEN Panicked(st)
    ELSE LET s1 == Nla_emit(st, lo + len, hi, Head(nlas))
         IN IF s1.panic THEN s1
            ELSE emit_children_packed(s1, lo, hi, Tail(nlas), len + U16At(s1.b, lo + len))

\* let mut len = 0; for op in nlas { op.emit(&mut buffer[len..]); len += op.buffer_len(); }
RECURSIVE emit_children(_, _, _, _, _)
emit_children(st, lo, hi, nlas, len) ==
    IF st.panic \/ nlas = << >> THEN st
    ELSE IF lo + len > hi THEN Panicked(st)
    ELSE emit_children(Nla_emit(st, lo + len, hi, Head(nlas)), lo, hi, Tail(nlas),
                       len + Nla_buffer_len(Head(nlas)))

ConntrackAttribute_emit_value(st, lo, hi, a) == emit_children(st, lo, hi, a.nlas, 0)
Tuple_emit_value(st, lo, hi, a) == emit_children(st, lo, hi, a.nlas, 0)

\* buf[..IPV4_LEN].copy_from_slice(octets) / buf[..IPV6_LEN].copy_from_slice(octets)
emit_ip(st, lo, hi, a) == WriteIn(st, lo, hi, 0, a.octets)
IPTuple_emit_value(st, lo, hi, a) == emit_ip(st, lo, hi, a)

\* buffer[0] = v for Protocol, emit_u16(buffer, v).unwrap() for the ports
ProtoTuple_emit_value(st, lo, hi, a) ==
    IF a.tag = "Protocol" THEN WriteIn(st, lo, hi, 0, << a.v >>)
    ELSE WriteIn(st, lo, hi, 0, LE16(a.v))

\* buffer[..s.len()].copy_from_slice(s.as_bytes()); buffer[s.len()] = 0
emit_string(st, lo, hi, str) ==
    WriteIn(WriteIn(st, lo, hi, 0, as_bytes(str)), lo, hi, String_len(str), << 0 >>)

\* emit_u32(buffer, v).unwrap() for the scalars
BeverageAttribute_emit_value(st, lo, hi, a) ==
    IF a.tag = "PersonName" THEN emit_string(st, lo, hi, a.s)
    ELSE WriteIn(st, lo, hi, 0, LE32(a.v))

\* Cookie: buffer.copy_from_slice(&n.to_ne_bytes()), which needs equal lengths
PingPongAttribute_emit_value(st, lo, hi, a) ==
    IF a.tag = "Message" THEN emit_string(st, lo, hi, a.s)
    ELSE IF hi - lo # 4 THEN Panicked(st)
    ELSE WriteIn(st, lo, hi, 0, LE32(a.v))

Nla_emit_value(st, lo, hi, a) ==
    IF a.tag \in ConntrackTags THEN ConntrackAttribute_emit_value(st, lo, hi, a)
    ELSE IF a.tag \in TupleTags THEN Tuple_emit_value(st, lo, hi, a)
    ELSE IF a.tag \in IPTupleTags THEN IPTuple_emit_value(st, lo, hi, a)
    ELSE IF a.tag \in ProtoTupleTags THEN ProtoTuple_emit_value(st, lo, hi, a)
    ELSE IF a.tag \in BeverageTags THEN BeverageAttribute_emit_value(st, lo, hi, a)
    ELSE PingPongAttribute_emit_value(st, lo, hi, a)

\* The kind field as written: kind(), with NLA_F_NESTED or-ed in when is_nested().
wire_kind(a) == Nla_kind(a) + (IF Nla_is_nested(a) THEN NLA_F_NESTED ELSE 0)

\* Faulty variant: the padding counted in the length field.
length_field_padded(vl) == (nla_align(vl) % U16_MODULUS) + NLA_HEADER_SIZE
\* buffer.set_length(self.value_len() as u16 + 4): the cast keeps the low 16
\* bits of value_len.
length_field(vl) == (vl % U16_MODULUS) + NLA_HEADER_SIZE

\* Faulty variant: the padding bytes left as they were.
emit_padding_skip(st, lo, hi, vl, i) == st

\* for i in 0..padding { buffer.inner_mut()[4 + value_len + i] = 0 }
RECURSIVE emit_padding(_, _, _, _, _)
emit_padding(st, lo, hi, vl, i) ==
    IF st.panic \/ i >= nla_align(vl) - vl THEN st
    ELSE emit_padding(WriteIn(st, lo, hi, NLA_HEADER_SIZE + vl + i, << 0 >>), lo, hi, vl, i + 1)

\* <T: Nla as Emitable>::emit into the slice [lo, hi) of the buffer:
\* kind and flags, length, value, padding.  A length that does not fit the
\* u16 field panics in every build: with overflow checks in the addition,
\* without them when value_mut() subtracts the header size from the wrapped
\* length and slices with the result.
Nla_emit(st, lo, hi, a) ==
    LET vl == Nla_value_len(a)
        l16 == length_field(vl)
        idx == Len(st.recs) + 1
        s0 == [st EXCEPT !.recs = Append(@, [attr |-> a, off |-> lo, end |-> -1])]
        s1 == WriteIn(s0, lo, hi, 2, LE16(wire_kind(a)))
        s2 == WriteIn(s1, lo, hi, 0, LE16(l16))
        vhi == lo + l16
        s3 == Nla_emit_value(s2, lo + NLA_HEADER_SIZE, vhi, a)
        s4 == emit_padding(s3, lo, hi, vl, 0)
    IN IF st.panic THEN st
       ELSE IF s1.panic THEN s1
       ELSE IF l16 >= U16_MODULUS THEN Panicked(s1)
       ELSE IF vhi > hi THEN Panicked(s2)
       ELSE IF s4.panic THEN s4
       ELSE [s4 EXCEPT !.recs[idx].end = s4.hw]

\* <&[T] as Emitable>::emit: each attribute into buffer[start..end],
\* end = start + nla.buffer_len(), start = end.
RECURSIVE slice_emit(_, _, _, _, _)
slice_emit(st, lo, hi, nlas, start) ==
    IF st.panic \/ nlas = << >> THEN st
    ELSE LET end == start + Nla_buffer_len(Head(nlas))
         IN IF lo + end > hi THEN Panicked(st)
            ELSE slice_emit(Nla_emit(st, lo + start, lo + end, Head(nlas)), lo, hi,
                            Tail(nlas), end)

\* ------------------------------------------------------------ headers
\* Nfgenmsg { nfgen_family: u8, version: u8, resource_id: u16 }
Nfgenmsg(f, v, r) == [nfgen_family |-> f, version |-> v, resource_id |-> r]
\* BvgGenMsg { family: BvgGenFamily, version: u8, resource_id: u16 }
BvgGenMsg(f, v, r) == [family |-> f, version |-> v, resource_id |-> r]

\* BvgGenFamily as u8: Hot = 2, Cold = 10
BvgGenFamily_as_u8(f) == IF f = "Hot" THEN 2 ELSE 10
\* TryFrom<u8> for BvgGenFamily: Err(BvgParseError { invalid_value }) otherwise
BvgGenFamily_try_from(v) ==
    IF v = 2 THEN [ok |-> TRUE, family |-> "Hot", invalid_value |-> 0]
    ELSE IF v = 10 THEN [ok |-> TRUE, family |-> "Cold", invalid_value |-> 0]
    ELSE [ok |-> FALSE, family |-> "", invalid_value |-> v]

\* Emitable for Nfgenmsg: family at 0, version at 1, resource_id at 2..4
Nfgenmsg_emit(st, lo, hi, h) ==
    WriteIn(WriteIn(WriteIn(st, lo, hi, 0, << h.nfgen_family >>),
                    lo, hi, 1, << h.version >>),
            lo, hi, 2, LE16(h.resource_id))
\* Emitable for BvgGenMsg
BvgGenMsg_emit(st, lo, hi, h) ==
    WriteIn(WriteIn(WriteIn(st, lo, hi, 0, << BvgGenFamily_as_u8(h.family) >>),
                    lo, hi, 1, << h.version >>),
            lo, hi, 2, LE16(h.resource_id))

\* ----------------------------------------------------------- messages
\* NetfilterMessage::ConntrackGet { header, nlas }
ConntrackGet(h, as) == [proto |-> "ct", variant |-> "ConntrackGet", header |-> h, nlas |-> as]
\* BeverageMessage::Tea { header, nlas } / Coffee { header, nlas }
Beverage(var, h, as) == [proto |-> "bvg", variant |-> var, header |-> h, nlas |-> as]
\* PingPongMessage::Ping(attr) / Pong(attr)
PingPong(var, a) == [proto |-> "pp", variant |-> var, attr |-> a]

NetfilterMessage_message_type(m) == NETFILTER_CONNTRACK_GET_MESSAGE_TYPE
BeverageMessage_message_type(m) ==
    IF m.variant = "Tea" THEN TEA_MESSAGE_TYPE ELSE COFFEE_MESSAGE_TYPE
PingPongMessage_message_type(m) ==
    IF m.variant = "Ping" THEN PING_MESSAGE ELSE PONG_MESSAGE
message_type(m) ==
    IF m.proto = "ct" THEN NetfilterMessage_message_type(m)
    ELSE IF m.proto = "bvg" THEN BeverageMessage_message_type(m)
    ELSE PingPongMessage_message_type(m)

NetfilterMessage_buffer_len(m) == NFGENMSG_LEN + slice_buffer_len(m.nlas)
BeverageMessage_buffer_len(m) == BVG_GEN_MSG_LEN + slice_buffer_len(m.nlas)
PingPongMessage_buffer_len(m) == Nla_buffer_len(m.attr)
buffer_len(m) ==
    IF m.proto = "ct" THEN NetfilterMessage_buffer_len(m)
    ELSE IF m.proto = "bvg" THEN BeverageMessage_buffer_len(m)
    ELSE PingPongMessage_buffer_len(m)

\* header.emit(&mut buffer[..NFGENMSG_LEN]); nlas.as_slice().emit(&mut buffer[NFGENMSG_LEN..])
NetfilterMessage_serialize(st, m) ==
    LET n == Len(st.b)
    IN IF n < NFGENMSG_LEN THEN Panicked(st)
       ELSE slice_emit(Nfgenmsg_emit(st, 0, NFGENMSG_LEN, m.header), NFGENMSG_LEN, n, m.nlas, 0)
BeverageMessage_serialize(st, m) ==
    LET n == Len(st.b)
    IN IF n < BVG_GEN_MSG_LEN THEN Panicked(st)
       ELSE slice_emit(BvgGenMsg_emit(st, 0, BVG_GEN_MSG_LEN, m.header), BVG_GEN_MSG_LEN, n,
                       m.nlas, 0)
\* attr.emit(buffer)
PingPongMessage_serialize(st, m) == Nla_emit(st, 0, Len(st.b), m.attr)

\* serialize into the caller's buffer.
serialize_into(st, m) ==
    IF m.proto = "ct" THEN NetfilterMessage_serialize(st, m)
    ELSE IF m.proto = "bvg" THEN BeverageMessage_serialize(st, m)
    ELSE PingPongMessage_serialize(st, m)

\* let mut buf = vec![fill; buffer_len()]; serialize(&mut buf): the callers
\* allocate exactly buffer_len() bytes (zeroes in the source's callers).
serialize(m, fill) == serialize_into(EmitState([i \in 1..buffer_len(m) |-> fill]), m)

\* ----------------------------------------------------------- decoding
\* A decode step returns Ok(value), Err(error) or panics.  An error is what
\* it reports and the offending value its text carries (-1: none).
NoVal == << >>
NoErr == [what |-> "", code |-> -1]
Ok(v) == [status |-> "ok", val |-> v, err |-> NoErr]
Err(w, c) == [status |-> "err", val |-> NoVal, err |-> [what |-> w, code |-> c]]
Panic(w) == [status |-> "panic", val |-> NoVal, err |-> [what |-> w, code |-> -1]]

\* NlaBuffer over the bytes b: the length and kind fields, the value.
NlaBuffer_length(b) == U16At(b, 0)
\* Faulty variant: the kind read with its flag bits.
NlaBuffer_kind_raw(b) == U16At(b, 2)
NlaBuffer_kind(b) == U16At(b, 2) % (NLA_TYPE_MASK + 1)
NlaBuffer_nested_flag(b) == (U16At(b, 2) \div NLA_F_NESTED) % 2 = 1
NlaBuffer_value(b) == Slice(b, NLA_HEADER_SIZE, NlaBuffer_length(b))

\* NlaBuffer::check_buffer_length, as called by new_checked: "" when the
\* buffer holds a whole record, the complaint otherwise.
NlaBuffer_check_buffer_length(b) ==
    IF Len(b) < NLA_HEADER_SIZE THEN "buffer shorter than an NLA header"
    ELSE IF Len(b) < NlaBuffer_length(b) THEN "NLA length beyond the buffer"
    ELSE IF NlaBuffer_length(b) < NLA_HEADER_SIZE THEN "NLA length below the header size"
    ELSE ""

\* parse_u8 / parse_u16 / parse_u32: the payload must have the exact width.
parse_u8(p) == IF Len(p) # 1 THEN Err("invalid u8", -1) ELSE Ok(p[1])
parse_u16(p) == IF Len(p) # 2 THEN Err("invalid u16", -1) ELSE Ok(U16At(p, 0))
parse_u32(p) == IF Len(p) # 4 THEN Err("invalid u32", -1) ELSE Ok(U32Of(p))
\* parse_ip: 4 bytes are an IPv4 address, 16 bytes an IPv6 address.
parse_ip(p) ==
    IF Len(p) = IPV4_LEN THEN Ok([fam |-> "V4", octets |-> p])
    ELSE IF Len(p) = IPV6_LEN THEN Ok([fam |-> "V6", octets |-> p])
    ELSE Err("invalid IP address", -1)
\* parse_string: empty payload is the empty string; one trailing NUL, when
\* there is one, is dropped; the rest must be UTF-8.
parse_string(p) ==
    IF p = << >> THEN Ok(EmptyString)
    ELSE LET sl == IF p[Len(p)] = 0 THEN SubSeq(p, 1, Len(p) - 1) ELSE p
         IN IF from_utf8_ok(sl) THEN Ok(String_from(sl)) ELSE Err("invalid string", -1)

RECURSIVE parse_nlas(_, _, _, _)

\* Faulty variant: an address accepted only under a kind of its own family.
IPTuple_parse_strict(buf) ==
    LET payload == NlaBuffer_value(buf)
        kind == NlaBuffer_kind(buf)
        ip == parse_ip(payload)
    IN IF kind \notin {CTA_IP_V4_SRC, CTA_IP_V6_SRC, CTA_IP_V4_DST, CTA_IP_V6_DST}
       THEN Err("invalid NLA kind", kind)
       ELSE IF ip.status # "ok" THEN ip
       ELSE IF (ip.val.fam = "V4") # (kind \in {CTA_IP_V4_SRC, CTA_IP_V4_DST})
       THEN Err("invalid IP address", -1)
       ELSE IF kind \in {CTA_IP_V4_SRC, CTA_IP_V6_SRC}
       THEN Ok(SourceAddress(ip.val.fam, ip.val.octets))
       ELSE Ok(DestinationAddress(ip.val.fam, ip.val.octets))

IPTuple_parse(buf) ==
    LET payload == NlaBuffer_value(buf)
        kind == NlaBuffer_kind(buf)
        ip == parse_ip(payload)
    IN IF kind \in {CTA_IP_V4_SRC, CTA_IP_V6_SRC}
       THEN (IF ip.status = "ok" THEN Ok(SourceAddress(ip.val.fam, ip.val.octets)) ELSE ip)
       ELSE IF kind \in {CTA_IP_V4_DST, CTA_IP_V6_DST}
       THEN (IF ip.status = "ok" THEN Ok(DestinationAddress(ip.val.fam, ip.val.octets)) ELSE ip)
       ELSE Err("invalid NLA kind", kind)

ProtoTuple_parse(buf) ==
    LET payload == NlaBuffer_value(buf)
        kind == NlaBuffer_kind(buf)
        r8 == parse_u8(payload)
        r16 == parse_u16(payload)
    IN IF kind = CTA_PROTO_NUM
       THEN (IF r8.status = "ok" THEN Ok(Protocol(r8.val)) ELSE r8)
       ELSE IF kind = CTA_PROTO_SRC_PORT
       THEN (IF r16.status = "ok" THEN Ok(SourcePort(r16.val)) ELSE r16)
       ELSE IF kind = CTA_PROTO_DST_PORT
       THEN (IF r16.status = "ok" THEN Ok(DestinationPort(r16.val)) ELSE r16)
       ELSE Err("invalid NLA kind", kind)

\* Faulty variant: every kind but CTA_TUPLE_IP taken for CTA_TUPLE_PROTO.
Tuple_parse_lenient(buf) ==
    LET payload == NlaBuffer_value(buf)
        kind == NlaBuffer_kind(buf)
        ips == parse_nlas(payload, 0, << >>, "IPTuple")
        protos == parse_nlas(payload, 0, << >>, "ProtoTuple")
    IN IF kind = CTA_TUPLE_IP
       THEN (IF ips.status = "ok" THEN Ok(TupleIp(ips.val)) ELSE ips)
       ELSE (IF protos.status = "ok" THEN Ok(TupleProto(protos.val)) ELSE protos)

Tuple_parse(buf) ==
    LET payload == NlaBuffer_value(buf)
        kind == NlaBuffer_kind(buf)
        ips == parse_nlas(payload, 0, << >>, "IPTuple")
        protos == parse_nlas(payload, 0, << >>, "ProtoTuple")
    IN IF kind = CTA_TUPLE_IP
       THEN (IF ips.status = "ok" THEN Ok(TupleIp(ips.val)) ELSE ips)
       ELSE IF kind = CTA_TUPLE_PROTO
       THEN (IF protos.status = "ok" THEN Ok(TupleProto(protos.val)) ELSE protos)
       ELSE Err("invalid NLA kind", kind)

\* Faulty variant: a value that cannot be iterated taken for an empty list.
ConntrackAttribute_parse_partial(buf) ==
    LET payload == NlaBuffer_value(buf)
        kind == NlaBuffer_kind(buf)
        tuples == parse_nlas(payload, 0, << >>, "Tuple")
    IN IF kind = CTA_TUPLE_ORIG
       THEN (IF tuples.status = "ok" THEN Ok(CtaTupleOrig(tuples.val))
             ELSE Ok(CtaTupleOrig(<< >>)))
       ELSE Err("invalid NLA kind", kind)

ConntrackAttribute_parse(buf) ==
    LET payload == NlaBuffer_value(buf)
        kind == NlaBuffer_kind(buf)
        tuples == parse_nlas(payload, 0, << >>, "Tuple")
    IN IF kind = CTA_TUPLE_ORIG
       THEN (IF tuples.status = "ok" THEN Ok(CtaTupleOrig(tuples.val)) ELSE tuples)
       ELSE Err("invalid NLA kind", kind)

BeverageAttribute_parse(buf) ==
    LET payload == NlaBuffer_value(buf)
        kind == NlaBuffer_kind(buf)
        r32 == parse_u32(payload)
        rs == parse_string(payload)
    IN IF kind = BVG_ATTR_CAFFEINE_CONTENT
       THEN (IF r32.status = "ok" THEN Ok(CaffeineContent(r32.val)) ELSE r32)
       ELSE IF kind = BVG_ATTR_HOTNESS
       THEN (IF r32.status = "ok" THEN Ok(Hotness(r32.val)) ELSE r32)
       ELSE IF kind = BVG_ATTR_PERSON_NAME
       THEN (IF rs.status = "ok" THEN Ok(PersonName(rs.val)) ELSE rs)
       ELSE Err("Unknown NLA kind for BeverageAttribute", kind)

\* Faulty variant: the slice taken up to and including the first NUL.
until_first_nul_incl(p) ==
    IF \E i \in 1..Len(p) : p[i] = 0
    THEN SubSeq(p, 1, CHOOSE i \in 1..Len(p) : p[i] = 0 /\ \A j \in 1..(i - 1) : p[j] # 0)
    ELSE p

\* payload.iter().position(|&b| b == 0).map(|p| &payload[..p]).unwrap_or(payload)
until_first_nul(p) ==
    IF \E i \in 1..Len(p) : p[i] = 0
    THEN SubSeq(p, 1, (CHOOSE i \in 1..Len(p) : p[i] = 0 /\ \A j \in 1..(i - 1) : p[j] # 0) - 1)
    ELSE p

PingPongAttribute_parse(buf) ==
    LET payload == NlaBuffer_value(buf)
        kind == NlaBuffer_kind(buf)
        str == until_first_nul(payload)
    IN IF kind = PING_PONG_ATTR_MSG
       THEN (IF from_utf8_ok(str) THEN Ok(Message(String_from(str))) ELSE Err("invalid utf-8", -1))
       ELSE IF kind = PING_PONG_ATTR_COOKIE
       \* bytes.copy_from_slice(payload) with bytes: [u8; 4]
       THEN (IF Len(payload) # 4 THEN Panic("copy_from_slice: length mismatch")
             ELSE Ok(Cookie(U32Of(payload))))
       ELSE Err("Unknown attribute type", -1)

\* Parseable::parse for the attribute type of a nesting level.
Parseable_parse(level, buf) ==
    IF level = "ConntrackAttribute" THEN ConntrackAttribute_parse(buf)
    ELSE IF level = "Tuple" THEN Tuple_parse(buf)
    ELSE IF level = "IPTuple" THEN IPTuple_parse(buf)
    ELSE IF level = "ProtoTuple" THEN ProtoTuple_parse(buf)
    ELSE IF level = "BeverageAttribute" THEN BeverageAttribute_parse(buf)
    ELSE PingPongAttribute_parse(buf)

\* Faulty variant: a record that fails the buffer check ends the list
\* instead of failing the parse.
RECURSIVE parse_nlas_quiet(_, _, _, _)
parse_nlas_quiet(payload, position, acc, level) ==
    IF position >= Len(payload) THEN Ok(acc)
    ELSE LET rest == Slice(payload, position, Len(payload))
             chk == NlaBuffer_check_buffer_length(rest)
             r == Parseable_parse(level, rest)
         IN IF chk # "" THEN Ok(acc)
            ELSE IF r.status # "ok" THEN r
            ELSE parse_nlas_quiet(payload, position + nla_align(NlaBuffer_length(rest)),
                                  Append(acc, r.val), level)

\* for nla in NlasIterator::new(payload) { let nla = nla?; out.push(T::parse(&nla)?); }
\* The iterator checks the bytes from position on, yields the record there
\* and advances by its aligned length; it ends once position reaches the end.
parse_nlas(payload, position, acc, level) ==
    IF position >= Len(payload) THEN Ok(acc)
    ELSE LET rest == Slice(payload, position, Len(payload))
             chk == NlaBuffer_check_buffer_length(rest)
             r == Parseable_parse(level, rest)
         IN IF chk # "" THEN Err(chk, -1)
            ELSE IF r.status # "ok" THEN r
            ELSE parse_nlas(payload, position + nla_align(NlaBuffer_length(rest)),
                            Append(acc, r.val), level)

\* Parseable for Nfgenmsg: the three fields, no validation.
Nfgenmsg_parse(b) == Ok(Nfgenmsg(b[1], b[2], U16At(b, 2)))

\* Parseable for BvgGenMsg: family: buf.family().try_into().unwrap()
BvgGenMsg_parse(b) ==
    LET f == BvgGenFamily_try_from(b[1])
    IN IF f.ok THEN Ok(BvgGenMsg(f.family, b[2], U16At(b, 2)))
       ELSE Panic("unwrap on Err(BvgParseError)")

\* Faulty variant: a payload too short for the header taken for a message
\* with a zero header and no attributes.
NetfilterMessage_deserialize_default(mt, payload) ==
    IF Len(payload) < NFGENMSG_LEN
    THEN Ok(ConntrackGet(Nfgenmsg(0, 0, 0), << >>))
    ELSE LET h == Nfgenmsg_parse(Slice(payload, 0, NFGENMSG_LEN))
             as == parse_nlas(Slice(payload, NFGENMSG_LEN, Len(payload)), 0, << >>,
                              "ConntrackAttribute")
         IN IF h.status # "ok" THEN h
            ELSE IF as.status # "ok" THEN as
            ELSE IF mt = NETFILTER_CONNTRACK_GET_MESSAGE_TYPE
            THEN Ok(ConntrackGet(h.val, as.val))
            ELSE Err("Unknown message type for Beverage protocol", mt)

NetfilterMessage_deserialize(mt, payload) ==
    IF Len(payload) < NFGENMSG_LEN
    THEN Err("Payload is too short for NFGENMSG header", -1)
    ELSE LET h == Nfgenmsg_parse(Slice(payload, 0, NFGENMSG_LEN))
             as == parse_nlas(Slice(payload, NFGENMSG_LEN, Len(payload)), 0, << >>,
                              "ConntrackAttribute")
         IN IF h.status # "ok" THEN h
            ELSE IF as.status # "ok" THEN as
            ELSE IF mt = NETFILTER_CONNTRACK_GET_MESSAGE_TYPE
            THEN Ok(ConntrackGet(h.val, as.val))
            \* the text is the beverage protocol's, in this file too
            ELSE Err("Unknown message type for Beverage protocol", mt)

BeverageMessage_deserialize(mt, payload) ==
    IF Len(payload) < BVG_GEN_MSG_LEN
    THEN Err("Payload is too short for BvgGenMsg header", -1)
    ELSE LET h == BvgGenMsg_parse(Slice(payload, 0, BVG_GEN_MSG_LEN))
             as == parse_nlas(Slice(payload, BVG_GEN_MSG_LEN, Len(payload)), 0, << >>,
                              "BeverageAttribute")
         IN IF h.status # "ok" THEN h
            ELSE IF as.status # "ok" THEN as
            ELSE IF mt = TEA_MESSAGE_TYPE THEN Ok(Beverage("Tea", h.val, as.val))
            ELSE IF mt = COFFEE_MESSAGE_TYPE THEN Ok(Beverage("Coffee", h.val, as.val))
            ELSE Err("Unknown message type for Beverage protocol", mt)

\* Faulty variant: a payload that is not exactly one padded record refused.
PingPongMessage_deserialize_exact(mt, payload) ==
    LET chk == NlaBuffer_check_buffer_length(payload)
        a == PingPongAttribute_parse(payload)
    IN IF chk # "" THEN Err("Invalid NLA format in payload", -1)
       ELSE IF Len(payload) # nla_align(NlaBuffer_length(payload))
       THEN Err("Invalid NLA format in payload", -1)
       ELSE IF a.status = "panic" THEN a
       ELSE IF a.status = "err" THEN Err("Failed to parse attributes", -1)
       ELSE IF mt = PING_MESSAGE THEN Ok(PingPong("Ping", a.val))
       ELSE IF mt = PONG_MESSAGE THEN Ok(PingPong("Pong", a.val))
       ELSE Err("invalid ping-pong message: invalid message type", -1)

\* Every error is replaced by a DeserializeError holding a fixed text.
PingPongMessage_deserialize(mt, payload) ==
    LET chk == NlaBuffer_check_buffer_length(payload)
        a == PingPongAttribute_parse(payload)
    IN IF chk # "" THEN Err("Invalid NLA format in payload", -1)
       ELSE IF a.status = "panic" THEN a
       ELSE IF a.status = "err" THEN Err("Failed to parse attributes", -1)
       ELSE IF mt = PING_MESSAGE THEN Ok(PingPong("Ping", a.val))
       ELSE IF mt = PONG_MESSAGE THEN Ok(PingPong("Pong", a.val))
       ELSE Err("invalid ping-pong message: invalid message type", -1)

\* NetlinkDeserializable::deserialize of the protocol's message type.
deserialize(proto, mt, payload) ==
    IF proto = "ct" THEN NetfilterMessage_deserialize(mt, payload)
    ELSE IF proto = "bvg" THEN BeverageMessage_deserialize(mt, payload)
    ELSE PingPongMessage_deserialize(mt, payload)

\* ------------------------------------------------------------- inputs
\* The values callers build messages from.
Ipv4Sample == << 10, 57, 97, 124 >>
Ipv6Sample == << 32, 1, 13, 184, 0, 0, 0, 0, 0, 0, 0, 0, 0, 0, 0, 1 >>
IPTuplePool ==
    { SourceAddress("V4", Ipv4Sample), DestinationAddress("V4", Ipv4Sample),
      SourceAddress("V6", Ipv6Sample), DestinationAddress("V6", Ipv6Sample) }
ProtoTuplePool == { Protocol(6), SourcePort(45210), DestinationPort(47873) }
NfgenmsgPool == { Nfgenmsg(0, 0, 0), Nfgenmsg(2, 0, 0) }
BvgGenMsgPool == { BvgGenMsg("Hot", 1, 101), BvgGenMsg("Cold", 0, 0) }

\* Characters strings are made of: NUL (a String may hold it) and a two-byte
\* character.
CharPool == { << 0 >>, << 195, 169 >> }
RECURSIVE StringsOfLen(_)
StringsOfLen(n) ==
    IF n = 0 THEN { << >> }
    ELSE { c \o t : c \in CharPool, t \in StringsOfLen(n - 1) }
Alice == String_from(<< 65, 108, 105, 99, 101 >>)
StringPool == { String_from(b) : b \in UNION { StringsOfLen(n) : n \in 0..MaxStrLen } } \cup { Alice }

BeverageAttributePool ==
    { CaffeineContent(U32(334, 43106)), Hotness(U32(0, 95)) } \cup { PersonName(str) : str \in StringPool }
PingPongAttributePool ==
    { Cookie(U32(0, 129)), Cookie(U32(65535, 65535)) } \cup { Message(str) : str \in StringPool }

\* Attribute nodes of a conntrack tree.
RECURSIVE CountNodes(_)
CountNodes(nlas) ==
    IF nlas = << >> THEN 0
    ELSE 1 + (IF "nlas" \in DOMAIN Head(nlas) THEN CountNodes(Head(nlas).nlas) ELSE 0)
           + CountNodes(Tail(nlas))

\* The records of the two packets captured in conntrack/tests.rs, after the
\* 16-byte netlink header.
RawDumpPayload == << 0, 0, 0, 0 >>
RawGetPayload ==
    << 2, 0, 0, 0,
       52, 0, 1, 128,
         20, 0, 1, 128,
           8, 0, 1, 0, 10, 57, 97, 124,
           8, 0, 2, 0, 148, 113, 20, 105,
         28, 0, 2, 128,
           5, 0, 1, 0, 6, 0, 0, 0,
           6, 0, 2, 0, 154, 176, 0, 0,
           6, 0, 3, 0, 1, 187, 0, 0,
       24, 0, 4, 128,
         20, 0, 1, 128,
           6, 0, 4, 0, 10, 10, 0, 0,
           6, 0, 5, 0, 10, 10, 0, 0 >>

\* -------------------------------------------------------------- state
VARIABLES
    msg,      \* the message the caller has built
    pc,       \* "build", "serialized", "decoded" or "panicked"
    out,      \* the serialize call: buffer, panic flag, records emitted
    payload,  \* the bytes handed to deserialize
    mtype,    \* the message type of the netlink header handed to deserialize
    wire,     \* what happened to the bytes between serialize and deserialize
    res       \* the result of deserialize

vars == << msg, pc, out, payload, mtype, wire, res >>

NoOut == EmitState(<< >>)
NoRes == [status |-> "none", val |-> NoVal, err |-> NoErr]
Untouched == [op |-> "none", rec |-> 0, arg |-> 0]

InitMessages ==
    { ConntrackGet(h, << >>) : h \in NfgenmsgPool }
    \cup { Beverage(v, h, << >>) : v \in {"Tea", "Coffee"}, h \in BvgGenMsgPool }
    \cup { PingPong(v, a) : v \in {"Ping", "Pong"}, a \in PingPongAttributePool }

Init ==
    /\ msg \in InitMessages
    /\ pc = "build"
    /\ out = NoOut
    /\ payload = << >>
    /\ mtype = 0
    /\ wire = Untouched
    /\ res = NoRes

\* Strings whose record length does not fit the u16 length field: value_len
\* is 65532 (the sum with the header size overflows), 65536 and 65537 (the
\* cast to u16 wraps).
OversizeLens == { 65531, 65535, 65536 }
OversizeString(n) == String_repeat(<< 65 >>, n)
OversizeMessages ==
    { PingPong("Ping", Message(OversizeString(n))) : n \in OversizeLens }
    \cup { Beverage("Coffee", BvgGenMsg("Cold", 0, 0), << PersonName(OversizeString(n)) >>) :
             n \in OversizeLens }

\* The same system, its callers also building messages with oversize strings.
InitOversize ==
    /\ msg \in InitMessages \cup OversizeMessages
    /\ pc = "build"
    /\ out = NoOut
    /\ payload = << >>
    /\ mtype = 0
    /\ wire = Untouched
    /\ res = NoRes

SetLast(seq, x) == [seq EXCEPT ![Len(seq)] = x]
Last(seq) == seq[Len(seq)]

\* ---- the caller builds the attribute tree (the vec![..] of main and tests)
\* nlas.push(ConntrackAttribute::CtaTupleOrig(vec![]))
PushConntrackAttribute ==
    /\ pc = "build" /\ msg.proto = "ct"
    /\ CountNodes(msg.nlas) < MaxNodes
    /\ msg' = [msg EXCEPT !.nlas = Append(@, CtaTupleOrig(<< >>))]
    /\ UNCHANGED << pc, out, payload, mtype, wire, res >>

\* a Tuple::Ip(vec![]) or Tuple::Proto(vec![]) joins the last CtaTupleOrig
PushTuple ==
    /\ pc = "build" /\ msg.proto = "ct"
    /\ msg.nlas # << >>
    /\ CountNodes(msg.nlas) < MaxNodes
    /\ \E t \in { TupleIp(<< >>), TupleProto(<< >>) } :
          msg' = [msg EXCEPT !.nlas = SetLast(@, CtaTupleOrig(Append(Last(@).nlas, t)))]
    /\ UNCHANGED << pc, out, payload, mtype, wire, res >>

\* an IPTuple or ProtoTuple joins the last Tuple of the last CtaTupleOrig
PushLeaf ==
    /\ pc = "build" /\ msg.proto = "ct"
    /\ msg.nlas # << >>
    /\ Last(msg.nlas).nlas # << >>
    /\ CountNodes(msg.nlas) < MaxNodes
    /\ LET t == Last(Last(msg.nlas).nlas)
       IN \E l \in (IF t.tag = "Ip" THEN IPTuplePool ELSE ProtoTuplePool) :
             msg' = [msg EXCEPT !.nlas =
                        SetLast(@, CtaTupleOrig(
                            SetLast(Last(@).nlas, [t EXCEPT !.nlas = Append(@, l)])))]
    /\ UNCHANGED << pc, out, payload, mtype, wire, res >>

\* nlas.push(BeverageAttribute::..)
PushBeverageAttribute ==
    /\ pc = "build" /\ msg.proto = "bvg"
    /\ Len(msg.nlas) < MaxBvgAttrs
    /\ \E a \in BeverageAttributePool : msg' = [msg EXCEPT !.nlas = Append(@, a)]
    /\ UNCHANGED << pc, out, payload, mtype, wire, res >>

\* ---- let mut buf = vec![0; m.buffer_len()]; m.serialize(&mut buf)
\* serialize takes any buffer of that length: zeroes as in the callers of
\* the source, or one that held 0xFF bytes.
\* The bytes and message_type() go on the wire unless serialize panicked.
Serialize ==
    /\ pc = "build"
    /\ \E fill \in {0, 255} :
       LET st == serialize(msg, fill)
       IN /\ out' = st
          /\ pc' = IF st.panic THEN "panicked" ELSE "serialized"
          /\ payload' = IF st.panic THEN << >> ELSE st.b
          /\ mtype' = IF st.panic THEN 0 ELSE message_type(msg)
    /\ UNCHANGED << msg, wire, res >>

\* ---- the payload reaches deserialize cut short
Truncate ==
    /\ pc = "serialized" /\ wire.op = "none"
    /\ \E n \in 0..(Len(payload) - 1) :
          /\ payload' = SubSeq(payload, 1, n)
          /\ wire' = [op |-> "truncate", rec |-> 0, arg |-> n]
    /\ UNCHANGED << msg, pc, out, mtype, res >>

\* The attribute type a record of the tree is parsed as, and the kinds its
\* parse matches.
LevelOf(a) ==
    IF a.tag \in ConntrackTags THEN "ConntrackAttribute"
    ELSE IF a.tag \in TupleTags THEN "Tuple"
    ELSE IF a.tag \in IPTupleTags THEN "IPTuple"
    ELSE IF a.tag \in ProtoTupleTags THEN "ProtoTuple"
    ELSE IF a.tag \in BeverageTags THEN "BeverageAttribute"
    ELSE "PingPongAttribute"
KindTable(level) ==
    IF level = "ConntrackAttribute" THEN { CTA_TUPLE_ORIG }
    ELSE IF level = "Tuple" THEN { CTA_TUPLE_IP, CTA_TUPLE_PROTO }
    ELSE IF level = "IPTuple" THEN { CTA_IP_V4_SRC, CTA_IP_V4_DST, CTA_IP_V6_SRC, CTA_IP_V6_DST }
    ELSE IF level = "ProtoTuple" THEN { CTA_PROTO_NUM, CTA_PROTO_SRC_PORT, CTA_PROTO_DST_PORT }
    ELSE IF level = "BeverageAttribute"
    THEN { BVG_ATTR_CAFFEINE_CONTENT, BVG_ATTR_HOTNESS, BVG_ATTR_PERSON_NAME }
    ELSE { PING_PONG_ATTR_MSG, PING_PONG_ATTR_COOKIE }
\* Kinds a peer may send: the small ones and the largest the mask lets through.
KindPool == (0..5) \cup { NLA_TYPE_MASK }

ScalarTags ==
    { "Protocol", "SourcePort", "DestinationPort", "CaffeineContent", "Hotness", "Cookie" }

\* p with bytes put at 0-based offset pos.
Overwrite(p, pos, bytes) ==
    SubSeq(p, 1, pos) \o bytes \o SubSeq(p, pos + Len(bytes) + 1, Len(p))

\* Where the slice holding record i of recs ends: the end of the nearest
\* container around it, the end of the payload for a top-level record.
EnclosingEnd(recs, i, n) ==
    LET around == { j \in 1..(i - 1) : "nlas" \in DOMAIN recs[j].attr /\ recs[j].end >= recs[i].end }
    IN IF around = {} THEN n
       ELSE recs[CHOOSE j \in around : \A k \in around : k <= j].end

\* ---- the payload reaches deserialize with one record's kind replaced by a
\* kind its level does not define (flag bits as written)
SetKind ==
    /\ pc = "serialized" /\ wire.op = "none"
    /\ \E i \in 1..Len(out.recs) :
         \E k \in KindPool \ KindTable(LevelOf(out.recs[i].attr)) :
            /\ payload' = Overwrite(payload, out.recs[i].off + 2,
                                    LE16(k + wire_kind(out.recs[i].attr)
                                           - Nla_kind(out.recs[i].attr)))
            /\ wire' = [op |-> "kind", rec |-> i, arg |-> k]
    /\ UNCHANGED << msg, pc, out, mtype, res >>

\* ---- ... with the length field of one scalar record replaced by another
\* length that still makes a whole record inside the enclosing slice
SetLen ==
    /\ pc = "serialized" /\ wire.op = "none"
    /\ \E i \in 1..Len(out.recs) :
         LET r == out.recs[i]
             true_len == Nla_value_len(r.attr) + NLA_HEADER_SIZE
         IN /\ r.attr.tag \in ScalarTags
            /\ \E l \in NLA_HEADER_SIZE..(true_len + NLA_ALIGNTO) :
                  /\ l # true_len
                  /\ r.off + l <= EnclosingEnd(out.recs, i, Len(payload))
                  /\ payload' = Overwrite(payload, r.off, LE16(l))
                  /\ wire' = [op |-> "len", rec |-> i, arg |-> l]
    /\ UNCHANGED << msg, pc, out, mtype, res >>

\* ---- ... with the family byte of a beverage header replaced by a value
\* BvgGenFamily does not define
SetFamily ==
    /\ pc = "serialized" /\ wire.op = "none"
    /\ msg.proto = "bvg"
    /\ \E v \in { 0, 1, 3, 255 } :
          /\ payload' = Overwrite(payload, 0, << v >>)
          /\ wire' = [op |-> "family", rec |-> 0, arg |-> v]
    /\ UNCHANGED << msg, pc, out, mtype, res >>

\* ---- a captured conntrack packet arrives instead (conntrack/tests.rs); msg is
\* what the test builds from the same header with the types main.rs defines
ReceiveCaptured ==
    /\ pc = "build" /\ msg.proto = "ct" /\ msg.nlas = << >>
    /\ \E raw \in { RawDumpPayload, RawGetPayload } :
          /\ msg.header.nfgen_family = raw[1]
          /\ payload' = raw
          /\ wire' = [op |-> "captured", rec |-> 0, arg |-> Len(raw)]
    /\ mtype' = NETFILTER_CONNTRACK_GET_MESSAGE_TYPE
    /\ pc' = "serialized"
    /\ UNCHANGED << msg, out, res >>

\* The codes each protocol's deserialize matches, and codes a peer may put
\* in the outer header.
TypeTable(proto) ==
    IF proto = "ct" THEN { NETFILTER_CONNTRACK_GET_MESSAGE_TYPE }
    ELSE IF proto = "bvg" THEN { TEA_MESSAGE_TYPE, COFFEE_MESSAGE_TYPE }
    ELSE { PING_MESSAGE, PONG_MESSAGE }
MessageTypePool ==
    { 0, PING_MESSAGE, TEA_MESSAGE_TYPE, NETFILTER_CONNTRACK_GET_MESSAGE_TYPE }

\* ---- the payload reaches deserialize under a message type the protocol
\* does not define
SetMessageType ==
    /\ pc = "serialized" /\ wire.op = "none"
    /\ \E t \in MessageTypePool \ TypeTable(msg.proto) :
          /\ mtype' = t
          /\ wire' = [op |-> "mtype", rec |-> 0, arg |-> t]
    /\ UNCHANGED << msg, pc, out, payload, res >>

\* ---- a payload shorter than the protocol header arrives, under any
\* message type
ReceiveShort ==
    /\ pc = "build" /\ msg.proto \in {"ct", "bvg"} /\ msg.nlas = << >>
    /\ \E n \in 0..(NFGENMSG_LEN - 1) : \E p \in [1..n -> {2, 255}] :
          /\ payload' = p
          /\ wire' = [op |-> "short", rec |-> 0, arg |-> n]
    /\ mtype' \in MessageTypePool
    /\ pc' = "serialized"
    /\ UNCHANGED << msg, out, res >>

\* ---- ... with the length field of one record, inside a conntrack
\* container or the one of a ping-pong payload, replaced by a length below
\* the header size or beyond the bytes left in the slice that holds it
SetBadLen ==
    /\ pc = "serialized" /\ wire.op = "none"
    /\ msg.proto \in {"ct", "pp"}
    /\ \E i \in 1..Len(out.recs) :
         LET r == out.recs[i]
             left == EnclosingEnd(out.recs, i, Len(payload)) - r.off
         IN /\ r.attr.tag \notin ConntrackTags
            /\ \E l \in { 0, NLA_HEADER_SIZE - 1, left + 1, U16_MODULUS - 1 } :
                  /\ payload' = Overwrite(payload, r.off, LE16(l))
                  /\ wire' = [op |-> "badlen", rec |-> i, arg |-> l]
    /\ UNCHANGED << msg, pc, out, mtype, res >>

\* ---- ... with the nested bit of one conntrack record's kind inverted
FlipNested ==
    /\ pc = "serialized" /\ wire.op = "none"
    /\ msg.proto = "ct"
    /\ \E i \in 1..Len(out.recs) :
         LET k == U16At(payload, out.recs[i].off + 2)
         IN /\ payload' = Overwrite(payload, out.recs[i].off + 2,
                                    LE16(IF k >= NLA_F_NESTED THEN k - NLA_F_NESTED
                                         ELSE k + NLA_F_NESTED))
            /\ wire' = [op |-> "nested", rec |-> i, arg |-> k]
    /\ UNCHANGED << msg, pc, out, mtype, res >>

\* ---- a ping-pong payload arrives with the first record as written and
\* other bytes after its declared length: a stray byte, 0xFF in place of the
\* padding and a malformed record, the padding and a second record
AppendTrailing ==
    /\ pc = "serialized" /\ wire.op = "none"
    /\ msg.proto = "pp"
    /\ LET l == U16At(payload, 0)
       IN \E t \in { << 255 >>, << 255, 255, 255, 3, 0, 9, 0 >>,
                     SubSeq(payload, l + 1, Len(payload)) \o << 8, 0, 2, 0, 1, 0, 0, 0 >> } :
             /\ payload' = SubSeq(payload, 1, l) \o t
             /\ wire' = [op |-> "trailing", rec |-> 1, arg |-> Len(t)]
    /\ UNCHANGED << msg, pc, out, mtype, res >>

\* ---- ... with the kind of one address record replaced by the kind of the
\* other address family (1 <-> 3, 2 <-> 4)
SwapIpKind ==
    /\ pc = "serialized" /\ wire.op = "none"
    /\ \E i \in 1..Len(out.recs) :
         LET r == out.recs[i]
             k == IF r.attr.tag = "SourceAddress"
                  THEN (IF r.attr.fam = "V4" THEN CTA_IP_V6_SRC ELSE CTA_IP_V4_SRC)
                  ELSE (IF r.attr.fam = "V4" THEN CTA_IP_V6_DST ELSE CTA_IP_V4_DST)
         IN /\ r.attr.tag \in IPTupleTags
            /\ payload' = Overwrite(payload, r.off + 2, LE16(k))
            /\ wire' = [op |-> "ipkind", rec |-> i, arg |-> k]
    /\ UNCHANGED << msg, pc, out, mtype, res >>

\* ---- ... with the length field of one address record replaced by a
\* length whose value is neither 4 nor 16 bytes and that still makes a
\* whole record inside the enclosing slice
SetIpLen ==
    /\ pc = "serialized" /\ wire.op = "none"
    /\ \E i \in 1..Len(out.recs) :
         LET r == out.recs[i]
         IN /\ r.attr.tag \in IPTupleTags
            /\ \E v \in { 0, 1, 3, 5, 8, 15, 17 } :
                  /\ r.off + NLA_HEADER_SIZE + v <= EnclosingEnd(out.recs, i, Len(payload))
                  /\ payload' = Overwrite(payload, r.off, LE16(NLA_HEADER_SIZE + v))
                  /\ wire' = [op |-> "iplen", rec |-> i, arg |-> v]
    /\ UNCHANGED << msg, pc, out, mtype, res >>

\* ---- NetlinkDeserializable::deserialize(header, payload)
Deserialize ==
    /\ pc = "serialized"
    /\ res' = deserialize(msg.proto, mtype, payload)
    /\ pc' = "decoded"
    /\ UNCHANGED << msg, out, payload, mtype, wire >>

Next ==
    \/ PushConntrackAttribute
    \/ PushTuple
    \/ PushLeaf
    \/ PushBeverageAttribute
    \/ Serialize
    \/ Truncate
    \/ SetKind
    \/ SetLen
    \/ SetFamily
    \/ ReceiveCaptured
    \/ SetMessageType
    \/ ReceiveShort
    \/ SetBadLen
    \/ FlipNested
    \/ AppendTrailing
    \/ SwapIpKind
    \/ SetIpLen
    \/ Deserialize

Spec == Init /\ [][Next]_vars

SpecOversize == InitOversize /\ [][Next]_vars

\* ------------------------------------------------------------ claims
\* The serialize call of this run has returned: out holds its buffer.
Emitted == pc \in {"serialized", "decoded"} /\ wire.op \notin {"captured", "short"}
\* deserialize has returned for the very bytes serialize wrote.
RoundTripped == pc = "decoded" /\ wire.op = "none"

\* The lengths as the specification states them: a value is 4 or 16 address
\* bytes, a u8, a u16, a u32, a string and its terminator, or its children's
\* padded records; a record is the 4-byte header and the value, padded to 4.
RECURSIVE StatedRecordLen(_)
RECURSIVE StatedTreeLen(_)
StatedTreeLen(nlas) ==
    IF nlas = << >> THEN 0 ELSE StatedRecordLen(Head(nlas)) + StatedTreeLen(Tail(nlas))
StatedValueLen(a) ==
    IF "nlas" \in DOMAIN a THEN StatedTreeLen(a.nlas)
    ELSE IF a.tag \in IPTupleTags THEN Len(a.octets)
    ELSE IF a.tag = "Protocol" THEN 1
    ELSE IF a.tag \in {"SourcePort", "DestinationPort"} THEN 2
    ELSE IF a.tag \in {"PersonName", "Message"} THEN Len(a.s.unit) * a.s.times + 1
    ELSE 4
StatedRecordLen(a) == ((4 + StatedValueLen(a) + 3) \div 4) * 4
StatedMessageLen(m) ==
    IF m.proto = "pp" THEN StatedRecordLen(m.attr) ELSE 4 + StatedTreeLen(m.nlas)
AttributeCount(m) == IF m.proto = "pp" THEN 1 ELSE CountNodes(m.nlas)

HasNul(str) == \E i \in 1..Len(str.unit) : str.unit[i] = 0

\* C2 as stated: every ping-pong message, whatever its string, comes back
\* equal from serialize and deserialize.
C2_RoundTripAnyString ==
    msg.proto = "pp" =>
        /\ pc # "panicked"
        /\ (RoundTripped => res = Ok(msg))
\* C2 as amended: a ping-pong message comes back equal when its string
\* holds no NUL byte and its record fits the 16-bit length field (a Cookie
\* always does).
C2_RoundTripNoNul ==
    (/\ msg.proto = "pp"
     /\ ~ HasNul(msg.attr.s)
     /\ Len(msg.attr.s.unit) * msg.attr.s.times + 5 <= 65535) =>
        /\ pc # "panicked"
        /\ (RoundTripped => res = Ok(msg))
C2_Witness ==
    /\ RoundTripped /\ msg.proto = "pp" /\ msg.attr = Message(Alice) /\ res.status = "ok"

\* C3: the captured conntrack-get packet of test_get_conntrack deserializes
\* without error to a message with the packet's header and its two
\* top-level attributes.
C3_CapturedGetDecodes ==
    (pc = "decoded" /\ wire.op = "captured" /\ payload = RawGetPayload) =>
        /\ res.status = "ok"
        /\ res.val.header = msg.header
        /\ Len(res.val.nlas) = 2

C5_LengthFieldAnySize ==
    (pc # "build" /\ wire.op # "captured") =>
        /\ ~ out.panic
        /\ \A i \in 1..Len(out.recs) :
              U16At(out.b, out.recs[i].off) = Nla_value_len(out.recs[i].attr) + 4
\* C5 as amended: when value_len + 4 fits the 16-bit field (value_len <=
\* 65531) the length field written is value_len + 4, padding not counted;
\* serialize panics exactly when some record's value is larger than that.
C5_LengthFieldWithinU16 ==
    /\ Emitted =>
          \A i \in 1..Len(out.recs) :
              /\ Nla_value_len(out.recs[i].attr) + 4 <= 65535
              /\ U16At(out.b, out.recs[i].off) = Nla_value_len(out.recs[i].attr) + 4
    /\ pc = "panicked" =>
          \E i \in 1..Len(out.recs) : Nla_value_len(out.recs[i].attr) + 4 > 65535
C5_Witness ==
    /\ pc = "serialized" /\ wire.op = "none"
    /\ \E i \in 1..Len(out.recs) : out.recs[i].attr.tag = "Protocol"

\* C6: every record of an encoded message, at every nesting level, starts
\* at an offset that is a multiple of 4, and every attribute has a record.
C6_Alignment ==
    Emitted =>
        /\ Len(out.recs) = AttributeCount(msg)
        /\ \A i \in 1..Len(out.recs) :
              /\ out.recs[i].off % 4 = 0
              /\ U16At(out.b, out.recs[i].off + 2) = wire_kind(out.recs[i].attr)
C6_Witness ==
    /\ pc = "serialized" /\ wire.op = "none"
    /\ \E i \in 1..(Len(out.recs) - 1) :
          /\ out.recs[i].attr.tag = "Protocol"
          /\ out.recs[i + 1].attr.tag = "SourcePort"

\* C7: a record whose kind its level does not define makes deserialize
\* return an error; no message comes back.
C7_UnknownKindRejected ==
    (pc = "decoded" /\ wire.op = "kind") => (res.status = "err" /\ res.val = NoVal)
C7_Witness ==
    /\ pc = "decoded" /\ wire.op = "kind" /\ res.status = "err"
    /\ out.recs[wire.rec].attr.tag \in IPTupleTags

\* The top-level records of the serialized message, in order.
TopRecords ==
    IF msg.proto = "pp" THEN { 1 }
    ELSE { i \in 1..Len(out.recs) : out.recs[i].attr.tag \in ConntrackTags \cup BeverageTags }
\* A prefix of n bytes holds whole top-level records and nothing more:
\* it ends where one ends, or inside the padding after its value, or, with
\* a protocol header, right after the header.
EndsOnRecord(n) ==
    \/ msg.proto # "pp" /\ n = 4
    \/ \E i \in TopRecords :
          /\ n >= out.recs[i].off + 4 + Nla_value_len(out.recs[i].attr)
          /\ n <= out.recs[i].end
\* The attributes whose records lie wholly in the first n bytes.
AttributesWithin(n) ==
    SubSeq(msg.nlas, 1,
           Cardinality({ i \in TopRecords :
                           out.recs[i].off + 4 + Nla_value_len(out.recs[i].attr) <= n }))

\* C8 as stated: every strict prefix of a serialized message is an error.
C8_EveryPrefixIsError ==
    (pc = "decoded" /\ wire.op = "truncate") => res.status = "err"
\* C8 as amended: deserializing a strict prefix never panics; it is an error
\* unless the prefix holds whole top-level records and nothing more, and
\* then it returns the header with the attributes the prefix holds (for
\* ping-pong, what the full buffer returns).
C8_TruncationSafe ==
    (pc = "decoded" /\ wire.op = "truncate") =>
        /\ res.status \in {"ok", "err"}
        /\ res.status = "ok" <=> EndsOnRecord(wire.arg)
        /\ res.status = "ok" =>
              IF msg.proto = "pp" THEN res = deserialize("pp", mtype, out.b)
              ELSE res.val = [msg EXCEPT !.nlas = AttributesWithin(wire.arg)]
C8_Witness ==
    /\ pc = "decoded" /\ wire.op = "truncate" /\ res.status = "ok"
    /\ msg.proto = "bvg" /\ Len(msg.nlas) = 2 /\ Len(res.val.nlas) = 1

\* C9: a beverage payload whose family byte is neither 2 nor 10 is refused
\* with an error that carries the byte.
C9_InvalidFamilyIsError ==
    (pc = "decoded" /\ wire.op = "family") =>
        (res.status = "err" /\ res.err.code = wire.arg)

\* C10: a scalar record whose value has another length than the scalar's
\* width is refused with an error.
C10_WrongWidthIsError ==
    (pc = "decoded" /\ wire.op = "len") => res.status = "err"

\* C11: a well-formed payload under a message type outside the protocol's
\* set is refused with an error that identifies the code; no message comes
\* back.
C11_UnknownTypeNamesCode ==
    (pc = "decoded" /\ wire.op = "mtype") =>
        /\ res.status = "err"
        /\ res.val = NoVal
        /\ res.err.code = wire.arg

\* C12: in every encoded message the nested bit (0x8000) of a record's wire
\* kind is set exactly when the attribute's value is a child tree: set on
\* ConntrackAttribute and Tuple records, clear on all the others; the low
\* bits are the attribute's kind.
C12_NestedBitMatchesValue ==
    Emitted =>
        \A i \in 1..Len(out.recs) :
            LET a == out.recs[i].attr
                k == U16At(out.b, out.recs[i].off + 2)
            IN /\ (k \div 32768 = 1) <=> (a.tag \in {"CtaTupleOrig", "Ip", "Proto"})
               /\ (k \div 32768 = 1) <=> ("nlas" \in DOMAIN a)
               /\ k % 32768 = Nla_kind(a)
C12_Witness ==
    /\ pc = "serialized" /\ wire.op = "none"
    /\ \E i, j \in 1..Len(out.recs) :
          /\ out.recs[i].attr.tag = "Ip"
          /\ out.recs[j].attr.tag = "DestinationAddress"

\* C13: no successfully decoded string (ping-pong Message, beverage
\* PersonName) holds a 0x00 byte, and the encoder puts exactly one 0x00
\* after a string's bytes.
C13_DecodedStringsHaveNoNul ==
    /\ (pc = "decoded" /\ res.status = "ok" /\ msg.proto = "pp") =>
          ~ HasNul(res.val.attr.s)
    /\ (pc = "decoded" /\ res.status = "ok" /\ msg.proto = "bvg") =>
          \A i \in 1..Len(res.val.nlas) : ~ HasNul(res.val.nlas[i].s)
    /\ Emitted =>
          \A i \in 1..Len(out.recs) :
              LET r == out.recs[i]
                  n == Len(r.attr.s.unit) * r.attr.s.times
              IN r.attr.tag \in {"PersonName", "Message"} =>
                    /\ U16At(out.b, r.off) = 4 + n + 1
                    /\ SubSeq(out.b, r.off + 5, r.off + 4 + n) = as_bytes(r.attr.s)
                    /\ out.b[r.off + 4 + n + 1] = 0

\* C14: a conntrack or beverage payload of fewer than 4 bytes is refused as
\* too short for the header, under every message type; the header is not
\* read.
C14_ShortPayloadIsError ==
    (pc = "decoded" /\ msg.proto \in {"ct", "bvg"}
       /\ wire.op \in {"short", "truncate"} /\ Len(payload) < 4) =>
        /\ res.status = "err"
        /\ res.val = NoVal
        /\ res.err.what = (IF msg.proto = "ct"
                           THEN "Payload is too short for NFGENMSG header"
                           ELSE "Payload is too short for BvgGenMsg header")
C14_Witness ==
    /\ pc = "decoded" /\ wire.op = "short" /\ res.status = "err"
    /\ msg.proto = "ct" /\ Len(payload) = 3
    /\ mtype = NETFILTER_CONNTRACK_GET_MESSAGE_TYPE

\* C15: when the value of a conntrack container, at any depth, holds a
\* child whose length field is below 4 or beyond the bytes left, the
\* top-level deserialize returns an error and no message, whatever was
\* decoded before the failure.
C15_MalformedNestedIsError ==
    (pc = "decoded" /\ wire.op = "badlen" /\ msg.proto = "ct") =>
        (res.status = "err" /\ res.val = NoVal)
C15_Witness ==
    /\ pc = "decoded" /\ wire.op = "badlen" /\ res.status = "err" /\ msg.proto = "ct"
    /\ wire.rec = 4
    /\ out.recs[3].attr.tag \in ProtoTupleTags
    /\ out.recs[4].attr.tag \in ProtoTupleTags

\* The bytes of the protocol header as the specification lays them out.
StatedHeader(m) ==
    << (IF m.proto = "ct" THEN m.header.nfgen_family
        ELSE IF m.header.family = "Hot" THEN 2 ELSE 10),
       m.header.version, m.header.resource_id % 256, m.header.resource_id \div 256 >>

C17_NestedBitIgnored ==
    (pc = "decoded" /\ wire.op = "nested") =>
        /\ payload # out.b
        /\ res = Ok(msg)
        /\ res = deserialize("ct", mtype, out.b)
C17_Witness ==
    /\ pc = "decoded" /\ wire.op = "nested" /\ res.status = "ok"
    /\ out.recs[wire.rec].attr.tag = "CtaTupleOrig"
    /\ out.recs[wire.rec].attr.nlas # << >>
    /\ wire.arg = NLA_F_NESTED + CTA_TUPLE_ORIG

\* C18: PingPongMessage::deserialize decodes the first record only and
\* ignores the bytes after its declared length: a payload that agrees with
\* the serialized one on the first record decodes to the same message; a
\* payload with no whole first record (fewer than 4 bytes, a length field
\* below 4 or beyond the payload) is an error.
C18_FirstRecordOnly ==
    /\ (pc = "decoded" /\ wire.op = "trailing") =>
          /\ payload # out.b
          /\ SubSeq(payload, 1, U16At(out.b, 0)) = SubSeq(out.b, 1, U16At(out.b, 0))
          /\ res.status = "ok"
          /\ res = deserialize("pp", mtype, out.b)
    /\ (pc = "decoded" /\ msg.proto = "pp" /\ wire.op = "truncate"
          /\ (Len(payload) < 4 \/ U16At(out.b, 0) > Len(payload))) =>
          res.status = "err"
    /\ (pc = "decoded" /\ msg.proto = "pp" /\ wire.op = "badlen") =>
          res.status = "err"
C18_Witness ==
    /\ pc = "decoded" /\ wire.op = "trailing" /\ res.status = "ok"
    /\ msg.attr = Message(Alice) /\ wire.arg = 10

\* C19: an address record decodes to the variant its kind names (1 or 3
\* source, 2 or 4 destination) with the family its value length names (4
\* bytes IPv4, 16 bytes IPv6), also when kind and length belong to
\* different families; encoding the decoded attribute again writes the kind
\* of the address's family, not the kind that was read; a value of any
\* other length is an error.
C19_IpKindAndFamily ==
    /\ (pc = "decoded" /\ wire.op = "ipkind") =>
          LET r == out.recs[wire.rec]
              again == serialize(res.val, 0).b
              k == U16At(again, r.off + 2)
          IN /\ payload # out.b
             /\ U16At(payload, r.off + 2) = wire.arg
             /\ res = Ok(msg)
             /\ again = out.b
             /\ k # wire.arg
             /\ k = (IF Len(r.attr.octets) = 4
                     THEN (IF r.attr.tag = "SourceAddress" THEN 1 ELSE 2)
                     ELSE (IF r.attr.tag = "SourceAddress" THEN 3 ELSE 4))
    /\ (pc = "decoded" /\ wire.op = "iplen") => res.status = "err"
C19_Witness ==
    /\ pc = "decoded" /\ wire.op = "ipkind" /\ res.status = "ok"
    /\ out.recs[wire.rec].attr.tag = "SourceAddress"
    /\ out.recs[wire.rec].attr.fam = "V4"
    /\ wire.arg = CTA_IP_V6_SRC

====
